---- MODULE Spec2Model ----
(***************************************************************************)
(* CritView (critview_app.py): a Streamlit script that loads a CSV of      *)
(* sampled curves, lets the user narrow the curve list with ten cascading  *)
(* attribute filters, fits a parametric spline X(t), Y(t) through the      *)
(* selected curve and plots the samples and the fit in user-chosen units.  *)
(*                                                                         *)
(* Streamlit reruns the whole script after every widget interaction, so    *)
(* every action below is one complete run of the script ("a pass") with    *)
(* the widget values the user left behind.                                 *)
(*                                                                         *)
(* Numbers: CSV values are small integers; factors and displayed values    *)
(* are exact rationals <<numerator, denominator>> in lowest terms (Python  *)
(* floats are modelled by the exact quotient they approximate).            *)
(***************************************************************************)
EXTENDS Integers, Sequences, FiniteSets, TLC

\* ------------------------------------------------------------------------
\* Bounds of the model
\* ------------------------------------------------------------------------
\* longest CSV file built from the mixed row pool
MaxRows == 3
\* longest single-curve CSV file (reaches the cubic fit, n >= 4)
MaxPoints == 5
\* largest number of points a curve is resampled to, besides the script's 200
MaxCount == 4

\* ------------------------------------------------------------------------
\* Values
\* ------------------------------------------------------------------------
\* a missing cell of a text column (pandas NaN)
NaN == "<NaN>"
\* Python None
None == "<None>"

RECURSIVE GCD(_, _)
GCD(a, b) == IF b = 0 THEN a ELSE GCD(b, a % b)

\* n / d in lowest terms (n >= 0, d > 0)
Rat(n, d) == LET g == GCD(n, d) IN <<n \div g, d \div g>>

\* a * b, cancelling before multiplying
RatMul(a, b) ==
    LET g1 == GCD(a[1], b[2])
        g2 == GCD(b[1], a[2])
    IN  Rat((a[1] \div g1) * (b[1] \div g2), (a[2] \div g2) * (b[2] \div g1))

\* a / b (b # 0)
RatDiv(a, b) == RatMul(a, <<b[2], b[1]>>)

\* the float literal n / 10^4
Dec4(n) == Rat(n, 10000)

One == <<1, 1>>

\* no factor was computed
NoFactor == <<0, 0>>

\* a Python dict kept as the sequence of its <<key, value>> items, in
\* insertion order
HasKey(d, k) == \E i \in 1..Len(d) : d[i][1] = k
Get(d, k) == d[CHOOSE i \in 1..Len(d) : d[i][1] = k][2]
Keys(d) == [i \in 1..Len(d) |-> d[i][1]]

\* list.index succeeds
InList(s, x) == \E i \in 1..Len(s) : s[i] = x

\* ------------------------------------------------------------------------
\* 1. The unit conversion tables
\* ------------------------------------------------------------------------
CONVERSION_FACTORS ==
    [ length |->
        << <<"centimeters (cm)", Dec4(10000)>>,
           <<"meters (m)", Dec4(1000000)>>,
           <<"inches (in)", Dec4(25400)>>,
           <<"feet (ft)", Dec4(304800)>> >>,
      concentration_vol |->
        << <<"g/cc", Dec4(10000)>>,
           <<"g/L", Dec4(10000000)>>,
           <<"kg/m^3", Dec4(10000000)>>,
           <<"g/ft^3", Dec4(283168466)>> >>,
      mass |->
        << <<"grams (g)", Dec4(10000)>>,
           <<"kilograms (kg)", Dec4(10000000)>>,
           <<"ounces (oz)", Dec4(283495)>>,
           <<"pounds (lb)", Dec4(4535920)>> >>,
      volume |->
        << <<"cm^3 (cc)", Dec4(10000)>>,
           <<"liters (L)", Dec4(10000000)>>,
           <<"in^3", Dec4(163871)>>,
           <<"ft^3", Dec4(283168466)>>,
           <<"gallons (US)", Dec4(37854100)>> >>,
      concentration_linear |->
        << <<"g/ft", Dec4(10000)>>,
           <<"g/cm", Dec4(304800)>>,
           <<"kg/m", Dec4(328084)>> >>,
      concentration_areal |->
        << <<"kg/ft^2", Dec4(10000)>>,
           <<"g/cm^2", Dec4(107639)>> >> ]

\* the binding table with a native unit its category does not list
VARIABLE_TO_CATEGORY_BadUnit ==
       "Diameter in" :> <<"length", "inches (in)">>
    @@ "Height in" :> <<"length", "inches (in)">>
    @@ "Radius in" :> <<"length", "inches (in)">>
    @@ "Thickness in" :> <<"length", "inches (in)">>
    @@ "critconc g/cc" :> <<"concentration_vol", "g/cc">>
    @@ "critconc g/L" :> <<"concentration_vol", "g/L">>
    @@ "critconc_linear g/ft" :> <<"concentration_linear", "g/ft">>
    @@ "critconc_areal kg/ft2" :> <<"concentration_areal", "kg/ft^2">>
    @@ "critmass kg" :> <<"mass", "kg">>
    @@ "volume L" :> <<"volume", "liters (L)">>
    @@ "volume gal" :> <<"volume", "gallons (US)">>

VARIABLE_TO_CATEGORY ==
       "Diameter in" :> <<"length", "inches (in)">>
    @@ "Height in" :> <<"length", "inches (in)">>
    @@ "Radius in" :> <<"length", "inches (in)">>
    @@ "Thickness in" :> <<"length", "inches (in)">>
    @@ "critconc g/cc" :> <<"concentration_vol", "g/cc">>
    @@ "critconc g/L" :> <<"concentration_vol", "g/L">>
    @@ "critconc_linear g/ft" :> <<"concentration_linear", "g/ft">>
    @@ "critconc_areal kg/ft2" :> <<"concentration_areal", "kg/ft^2">>
    @@ "critmass kg" :> <<"mass", "kilograms (kg)">>
    @@ "volume L" :> <<"volume", "liters (L)">>
    @@ "volume gal" :> <<"volume", "gallons (US)">>

\* get_unit_info returning the unit of factor 1.0 (the first unit of the
\* category) instead of the unit the variable is bound to
get_unit_info_FirstUnit(var_name) ==
    IF var_name \in DOMAIN VARIABLE_TO_CATEGORY
    THEN LET category == VARIABLE_TO_CATEGORY[var_name][1]
         IN  <<category, CONVERSION_FACTORS[category][1][1],
               Keys(CONVERSION_FACTORS[category])>>
    ELSE <<"unknown", var_name, <<var_name>>>>

\* get_unit_info whose fallback offers no unit at all
get_unit_info_EmptyFallback(var_name) ==
    IF var_name \in DOMAIN VARIABLE_TO_CATEGORY
    THEN LET category == VARIABLE_TO_CATEGORY[var_name][1]
             base_unit == VARIABLE_TO_CATEGORY[var_name][2]
         IN  <<category, base_unit, Keys(CONVERSION_FACTORS[category])>>
    ELSE <<"unknown", var_name, << >>>>

\* get_unit_info: <<category, base_unit, options>>
get_unit_info(var_name) ==
    IF var_name \in DOMAIN VARIABLE_TO_CATEGORY
    THEN LET category == VARIABLE_TO_CATEGORY[var_name][1]
             base_unit == VARIABLE_TO_CATEGORY[var_name][2]
         IN  <<category, base_unit, Keys(CONVERSION_FACTORS[category])>>
    ELSE <<"unknown", var_name, <<var_name>>>>

\* ------------------------------------------------------------------------
\* 2. The CSV file and load_data
\* ------------------------------------------------------------------------
\* the ten filter columns, in the order the sidebar applies them
FilterColumns ==
    << "geometry", "fiss-element", "critmat", "fiss-form", "isomat",
       "modmat", "reflmat", "reflthick", "X_Variable", "Y_Variable" >>

Columns ==
    {"title", "X_Value", "Y_Value"} \cup {FilterColumns[i] : i \in 1..Len(FilterColumns)}

\* A CSV cell of a value column: <<"num", v>> is text that parses as the
\* number v, <<"text", 0>> is text that does not, <<"nan", 0>> is the
\* literal nan and <<"empty", 0>> is an empty cell.
NumCell(v) == <<"num", v>>
TextCell == <<"text", 0>>
NanCell == <<"nan", 0>>
EmptyCell == <<"empty", 0>>
\* a value column's missing value after parsing
NaNValue == <<"NaN", 0>>

\* one CSV row; the attribute columns the row leaves empty are NaN
MkRow(title, geometry, x_var, y_var, x_cell, y_cell) ==
    [c \in Columns |->
        CASE c = "title" -> title
          [] c = "geometry" -> geometry
          [] c = "X_Variable" -> x_var
          [] c = "Y_Variable" -> y_var
          [] c = "X_Value" -> x_cell
          [] c = "Y_Value" -> y_cell
          [] OTHER -> NaN]

\* pd.read_csv and df.replace('nan', np.nan): empty cells and the literal
\* nan become NaN; every row gets its position as index label
read_csv(rows) ==
    [i \in 1..Len(rows) |->
        [c \in Columns \cup {"index"} |->
            IF c = "index" THEN i - 1
            ELSE IF c \in {"X_Value", "Y_Value"} /\ rows[i][c][1] \in {"nan", "empty"}
                 THEN NaNValue
                 ELSE rows[i][c]]]

\* to_numeric that turns what is not a number into 0
to_numeric_ZeroFill(cell) == IF cell[1] = "num" THEN cell ELSE <<"num", 0>>

\* pd.to_numeric(errors='coerce') on one cell
to_numeric(cell) == IF cell[1] = "num" THEN cell ELSE NaNValue

\* df.dropna(subset=['X_Value', 'Y_Value'])
dropna(d) ==
    LET Keep(r) == r["X_Value"] # NaNValue /\ r["Y_Value"] # NaNValue
    IN  SelectSeq(d, Keep)

\* load_data; a file that is not found gives the empty DataFrame
load_data(f) ==
    IF ~f.found THEN << >>
    ELSE LET raw == read_csv(f.rows)
             num == [i \in 1..Len(raw) |->
                        [raw[i] EXCEPT !["X_Value"] = to_numeric(@),
                                       !["Y_Value"] = to_numeric(@)]]
         IN  dropna(num)

\* pandas == on a text column: NaN equals nothing
Eq(a, b) == a # NaN /\ b # NaN /\ a = b

RECURSIVE Unique(_)
\* Series.unique(): first occurrences, in order
Unique(s) ==
    IF s = << >> THEN << >>
    ELSE LET rest == Unique(SubSeq(s, 1, Len(s) - 1))
             x == s[Len(s)]
         IN  IF InList(rest, x) THEN rest ELSE Append(rest, x)

Column(d, c) == [i \in 1..Len(d) |-> d[i][c]]

NotNaN(x) == x # NaN

\* ------------------------------------------------------------------------
\* 3. get_fitted_spline
\* ------------------------------------------------------------------------
Min(a, b) == IF a < b THEN a ELSE b

NoSpline == [k |-> 0, t |-> << >>, c |-> << >>]

NoFit ==
    [ outcome |-> "NotCalled", n_points |-> 0, k_spline |-> 0, index |-> << >>,
      spline_x |-> NoSpline, spline_y |-> NoSpline,
      x_data |-> << >>, y_data |-> << >>, x_var |-> None, y_var |-> None ]

RECURSIVE InsertByX(_, _)
\* r put into the rows s, which are sorted by X_Value
InsertByX(s, r) ==
    IF s = << >> THEN <<r>>
    ELSE IF r["X_Value"][2] < s[1]["X_Value"][2] THEN <<r>> \o s
    ELSE <<s[1]>> \o InsertByX(Tail(s), r)

RECURSIVE SortByX(_)
SortByX(s) ==
    IF s = << >> THEN << >>
    ELSE InsertByX(SortByX(SubSeq(s, 1, Len(s) - 1)), s[Len(s)])

\* the rows of the curve, sorted by X_Value
CurveRows_Sorted(curve_title, d) ==
    LET Has(r) == Eq(r["title"], curve_title) IN SortByX(SelectSeq(d, Has))

\* df[df['title'] == curve_title]
CurveRows(curve_title, d) ==
    LET Has(r) == Eq(r["title"], curve_title) IN SelectSeq(d, Has)

\* line 116 with the bound off by one: a single point is let through
TooFewPoints_OnlyEmpty(n_points) == n_points < 1

\* line 116: n_points < 2
TooFewPoints(n_points) == n_points < 2

\* line 126 without the -1
SplineDegree_NoMinusOne(n_points) == Min(3, n_points)

\* line 126: min(3, n_points - 1)
SplineDegree(n_points) == Min(3, n_points - 1)

\* UnivariateSpline(t, v, s=0, k=k): the interpolating spline of degree k
\* through (t[i], v[i]); the constructor rejects k outside 1..5 and needs
\* more than k points.  `raises` is any other failure of the library.
SplineRejects(n, k, raises) == raises \/ k < 1 \/ k > 5 \/ n <= k

UnivariateSpline(t, v, k) == [k |-> k, t |-> t, c |-> v]

\* (st.cache_data keeps the result for a title and DataFrame; `raises` is
\* chosen anew in every pass, which also covers a cleared cache.)
get_fitted_spline(curve_title, d, raises) ==
    LET curve_df == CurveRows(curve_title, d)
        n_points == Len(curve_df)
    IN  IF TooFewPoints(n_points)
        THEN [NoFit EXCEPT !.outcome = "InsufficientData", !.n_points = n_points]
        ELSE
          LET x_data == [i \in 1..n_points |-> curve_df[i]["X_Value"][2]]
              y_data == [i \in 1..n_points |-> curve_df[i]["Y_Value"][2]]
              t_data == [i \in 1..n_points |-> i - 1]
              k_spline == SplineDegree(n_points)
          IN  IF SplineRejects(n_points, k_spline, raises)
              THEN [NoFit EXCEPT !.outcome = "FitConstructionFailed",
                                 !.n_points = n_points, !.k_spline = k_spline]
              ELSE [ outcome |-> "Fitted", n_points |-> n_points,
                     k_spline |-> k_spline,
                     index |-> Column(curve_df, "index"),
                     spline_x |-> UnivariateSpline(t_data, x_data, k_spline),
                     spline_y |-> UnivariateSpline(t_data, y_data, k_spline),
                     x_data |-> x_data, y_data |-> y_data,
                     x_var |-> curve_df[1]["X_Variable"],
                     y_var |-> curve_df[1]["Y_Variable"] ]

\* ------------------------------------------------------------------------
\* 4. One pass of the script
\* ------------------------------------------------------------------------
\* st.selectbox: a widget keeps the user's value while its options and its
\* default index stay the same, and otherwise shows options[index]
Selectbox(options, index, prev_options, prev_index, prev_value) ==
    IF prev_options = options /\ prev_index = index /\ prev_value # None
    THEN prev_value
    ELSE options[index]

NoOptions == [i \in 1..Len(FilterColumns) |-> << >>]
NoSelected == [i \in 1..Len(FilterColumns) |-> None]

RECURSIVE Cascade(_, _, _, _)
\* the ten sidebar filters: the options of filter i are "All" and the values
\* left by filters 1..i-1; a value other than "All" narrows filtered_df
Cascade(i, fdf, w, acc) ==
    IF i > Len(FilterColumns)
    THEN [options |-> acc.options, selected |-> acc.selected, filtered_df |-> fdf]
    ELSE
      LET col == FilterColumns[i]
          opts == <<"All">> \o Unique(SelectSeq(Column(fdf, col), NotNaN))
          sel == Selectbox(opts, 1, w.options[i], 1, w.selected[i])
          Match(r) == r[col] = sel
          narrowed == IF sel # "All" THEN SelectSeq(fdf, Match) ELSE fdf
      IN  Cascade(i + 1, narrowed, w,
                  [options |-> [acc.options EXCEPT ![i] = opts],
                   selected |-> [acc.selected EXCEPT ![i] = sel]])

NoAxis ==
    [ category |-> None, base_unit |-> None, options |-> << >>,
      unit_selected |-> None, conv_factor |-> NoFactor, lookups |-> {} ]

\* lines 227-228: the axis as get_unit_info describes it
AxisInfo(var_name) ==
    LET info == get_unit_info(var_name)
    IN  [NoAxis EXCEPT !.category = info[1], !.base_unit = info[2],
                       !.options = info[3]]

\* list.index(x), or 0 when x is not in the list
IndexOf(s, x) == IF InList(s, x) THEN CHOOSE i \in 1..Len(s) : s[i] = x ELSE 0

\* lines 231-236: the unit of an axis; "" when list.index raises
AxisUnit(axis, var_name, prev) ==
    IF axis.category = "unknown" THEN var_name
    ELSE IF ~InList(axis.options, axis.base_unit) THEN ""
    ELSE Selectbox(axis.options, IndexOf(axis.options, axis.base_unit),
                   prev.options, IndexOf(prev.options, prev.base_unit),
                   IF prev.category = "unknown" THEN None ELSE prev.unit_selected)

\* lines 247-250: the table lookups behind the factor of an axis
AxisLookups(axis) ==
    IF axis.category # "unknown"
    THEN {<<axis.category, axis.base_unit>>, <<axis.category, axis.unit_selected>>}
    ELSE {}

\* a lookup CONVERSION_FACTORS[category][unit] that raises KeyError
BadLookup(l) ==
    \/ l[1] \notin DOMAIN CONVERSION_FACTORS
    \/ ~HasKey(CONVERSION_FACTORS[l[1]], l[2])

\* the factor with the quotient upside down
AxisFactor_Inverted(axis) ==
    IF axis.category # "unknown"
    THEN RatDiv(Get(CONVERSION_FACTORS[axis.category], axis.unit_selected),
                Get(CONVERSION_FACTORS[axis.category], axis.base_unit))
    ELSE One

\* lines 247-250: the factor of an axis (its lookups succeed)
AxisFactor(axis) ==
    IF axis.category # "unknown"
    THEN RatDiv(Get(CONVERSION_FACTORS[axis.category], axis.base_unit),
                Get(CONVERSION_FACTORS[axis.category], axis.unit_selected))
    ELSE One

\* the error the factor of an axis raises, or None
AxisFactorError(axis) ==
    IF \E l \in AxisLookups(axis) : BadLookup(l) THEN "KeyError"
    ELSE IF axis.category # "unknown"
            /\ Get(CONVERSION_FACTORS[axis.category], axis.unit_selected)[1] = 0
         THEN "ZeroDivisionError"
         ELSE None

\* An uncaught exception ends the pass where it is raised and leaves what
\* the pass had drawn.
Raise(r, e) == [r EXCEPT !.status = "exception", !.error = e]

\* the main area when a failed fit is raised instead of returned
FitStep_Raising(d, title, raises) ==
    LET base == [ fit |-> NoFit, x_axis |-> NoAxis, y_axis |-> NoAxis,
                  status |-> "complete", error |-> None, chart |-> None,
                  notices |-> {} ]
        f == get_fitted_spline(title, d, raises)
    IN  IF title = None THEN base
        ELSE IF f.outcome # "Fitted"
             THEN Raise([base EXCEPT !.fit = f], "ValueError")
             ELSE [base EXCEPT !.fit = f, !.status = "running",
                               !.x_axis = AxisInfo(f.x_var),
                               !.y_axis = AxisInfo(f.y_var)]

\* lines 219-228: the fit of the selected curve and the units of its axes;
\* the pass goes on ("running") when the curve is fitted
FitStep(d, title, raises) ==
    LET base == [ fit |-> NoFit, x_axis |-> NoAxis, y_axis |-> NoAxis,
                  status |-> "complete", error |-> None, chart |-> None,
                  notices |-> {} ]
        f == get_fitted_spline(title, d, raises)
    IN  IF title = None THEN base
        ELSE IF f.outcome # "Fitted"
             THEN [base EXCEPT !.fit = f, !.notices = {f.outcome}]
             ELSE [base EXCEPT !.fit = f, !.status = "running",
                               !.x_axis = AxisInfo(f.x_var),
                               !.y_axis = AxisInfo(f.y_var)]

\* lines 230-236 (ax = "x_axis") and 238-244 (ax = "y_axis"): the subheader
\* splits the variable name, then the unit of the axis is chosen
UnitStep(r, ax, var_name, prev, notice) ==
    LET u == AxisUnit(r[ax], var_name, prev) IN
    IF r.status # "running" THEN r
    ELSE IF var_name = NaN THEN Raise(r, "AttributeError")
    ELSE IF u = "" THEN Raise(r, "ValueError")
    ELSE [r EXCEPT ![ax].unit_selected = u,
                   !.notices = IF r[ax].category = "unknown"
                               THEN @ \cup {notice} ELSE @]

\* lines 247-250 (ax = "x_axis") and 251-254 (ax = "y_axis")
FactorStep(r, ax) ==
    IF r.status # "running" THEN r
    ELSE IF AxisFactorError(r[ax]) # None THEN Raise(r, AxisFactorError(r[ax]))
    ELSE [r EXCEPT ![ax].conv_factor = AxisFactor(r[ax]),
                   ![ax].lookups = AxisLookups(r[ax])]

\* lines 256-315: the chart and the metadata of the curve
ChartStep(r, title) ==
    IF r.status # "running" THEN r
    ELSE [r EXCEPT !.status = "complete", !.chart = title]

\* the value of a one-element set
The(S) == CHOOSE x \in S : TRUE

\* lines 219-315: the main area, one step after the other
MainArea(d, title, w, raises) ==
    The({ ChartStep(r5, title) : r5 \in
        { FactorStep(r4, "y_axis") : r4 \in
        { FactorStep(r3, "x_axis") : r3 \in
        { UnitStep(r2, "y_axis", r2.fit.y_var, w.y_axis, "UnknownY") : r2 \in
        { UnitStep(r1, "x_axis", r1.fit.x_var, w.x_axis, "UnknownX") : r1 \in
        { FitStep(d, title, raises) } } } } } })

\* lines 202-213: the curve selectbox
CurveChoice(titles, w) ==
    IF titles = << >> THEN None
    ELSE Selectbox(titles, 1, w.curve_titles, 1, w.selected_title)

\* lines 202-315: the curve list of the filtered rows, then the main area
Below(d, side, titles, w, raises) ==
    The({ [ options |-> side.options, selected |-> side.selected,
            curve_titles |-> titles, selected_title |-> CurveChoice(titles, w),
            fit |-> main.fit, x_axis |-> main.x_axis, y_axis |-> main.y_axis,
            status |-> main.status, error |-> main.error, chart |-> main.chart,
            notices |-> main.notices
                        \cup (IF titles = << >> THEN {"NoCurves"} ELSE {}) ] :
          main \in {MainArea(d, CurveChoice(titles, w), w, raises)} })

\* lines 144-315: the whole script on DataFrame d with widget values w
Pass(d, w, raises) ==
    IF d = << >>
    THEN [ options |-> NoOptions, selected |-> NoSelected, curve_titles |-> << >>,
           selected_title |-> None, fit |-> NoFit, x_axis |-> NoAxis,
           y_axis |-> NoAxis, status |-> "empty", error |-> None, chart |-> None,
           notices |-> {} ]
    ELSE The({ Below(d, side, Unique(Column(side.filtered_df, "title")), w, raises) :
               side \in {Cascade(1, d, w, [options |-> NoOptions,
                                           selected |-> NoSelected])} })

\* ------------------------------------------------------------------------
\* 5. The CSV files of the model
\* ------------------------------------------------------------------------
\* rows of two curves and of an untitled curve, some with a value that is
\* not a number
RowPool ==
    { MkRow("A", "sphere", "Foo bar", "Foo bar", NumCell(2), NumCell(1)),
      MkRow("A", "slab", "Foo bar", "Foo bar", NumCell(1), NumCell(2)),
      MkRow("A", "sphere", "Foo bar", "Foo bar", TextCell, NumCell(1)),
      MkRow("B", "sphere", "Foo bar", "Foo bar", NumCell(1), NumCell(1)),
      MkRow("B", "slab", "Foo bar", "Foo bar", NanCell, EmptyCell),
      MkRow(NaN, "sphere", "Foo bar", "Foo bar", NumCell(1), NumCell(1)) }

\* rows of one curve
PointPool ==
    { MkRow("A", NaN, "Foo bar", "Foo bar", NumCell(x), NumCell(1)) : x \in {1, 2} }

\* the names a variable column can hold: every bound name, a name that is
\* not bound, and no name
VarCells == DOMAIN VARIABLE_TO_CATEGORY \cup {"Foo bar", NaN}

SeqsUpTo(S, n) == UNION {[1..m -> S] : m \in 0..n}

\* the names paired with every name on the other axis
AnchorVars == {"Diameter in", "Foo bar", NaN}

VarPairs ==
    {p \in VarCells \X VarCells : p[1] \in AnchorVars \/ p[2] \in AnchorVars}

\* a two-point curve for every pair of variable names
VarFiles ==
    { << MkRow("A", NaN, p[1], p[2], NumCell(1), NumCell(1)),
         MkRow("A", NaN, p[1], p[2], NumCell(2), NumCell(3)) >> : p \in VarPairs }

\* files of mixed rows
RowFiles == SeqsUpTo(RowPool, MaxRows)

\* files of one curve
PointFiles == SeqsUpTo(PointPool, MaxPoints)

\* ------------------------------------------------------------------------
\* 6. The session
\* ------------------------------------------------------------------------
VARIABLES
    file,            \* the CSV file: [found, rows]
    pc,              \* "start" before the first pass, then "running"
    df,              \* the DataFrame load_data returned
    options,         \* the options of the ten filters
    selected,        \* the values of the ten filters
    curve_titles,    \* the options of the curve selectbox
    selected_title,  \* its value, None when it is not drawn
    fit,             \* what get_fitted_spline returned in this pass
    x_axis,          \* category, base_unit, options, unit_selected, conv_factor
    y_axis,
    status,          \* how the pass ended: "empty", "complete", "exception"
    error,           \* the uncaught exception of the pass, or None
    chart,           \* the title of the curve drawn in the main area, or None
    notices,         \* the warnings and errors the pass shows
    failed_before    \* history: an earlier pass of the session had a failed fit

vars ==
    << file, pc, df, options, selected, curve_titles, selected_title, fit,
       x_axis, y_axis, status, error, chart, notices, failed_before >>

Elements(s) == {s[i] : i \in 1..Len(s)}

\* the two ways a fit fails
FailedOutcomes == {"InsufficientData", "FitConstructionFailed"}

\* the widget values a pass starts from
Widgets ==
    [ options |-> options, selected |-> selected, curve_titles |-> curve_titles,
      selected_title |-> selected_title, x_axis |-> x_axis, y_axis |-> y_axis ]

\* run the script on d with widget values w
Run(d, w, raises) ==
    \E p \in {Pass(d, w, raises)} :
    /\ options' = p.options
    /\ selected' = p.selected
    /\ curve_titles' = p.curve_titles
    /\ selected_title' = p.selected_title
    /\ fit' = p.fit
    /\ x_axis' = p.x_axis
    /\ y_axis' = p.y_axis
    /\ status' = p.status
    /\ error' = p.error
    /\ chart' = p.chart
    /\ notices' = p.notices \cup (IF file.found THEN {} ELSE {"FileNotFound"})
    /\ failed_before' = (failed_before \/ fit.outcome \in FailedOutcomes)

Init ==
    /\ \/ file = [found |-> FALSE, rows |-> << >>]
       \/ \E r \in RowFiles : file = [found |-> TRUE, rows |-> r]
       \/ \E r \in PointFiles : file = [found |-> TRUE, rows |-> r]
       \/ \E r \in VarFiles : file = [found |-> TRUE, rows |-> r]
    /\ pc = "start"
    /\ df = << >>
    /\ options = NoOptions
    /\ selected = NoSelected
    /\ curve_titles = << >>
    /\ selected_title = None
    /\ fit = NoFit
    /\ x_axis = NoAxis
    /\ y_axis = NoAxis
    /\ status = "empty"
    /\ error = None
    /\ chart = None
    /\ notices = {}
    /\ failed_before = FALSE

\* the first pass: load_data reads the file
Startup ==
    /\ pc = "start"
    /\ pc' = "running"
    /\ df' = load_data(file)
    /\ \E raises \in BOOLEAN : Run(df', Widgets, raises)
    /\ UNCHANGED file

\* the user picks value v in filter i
ChangeFilter ==
    /\ pc = "running"
    /\ \E i \in 1..Len(FilterColumns) : \E v \in Elements(options[i]) :
          /\ v # selected[i]
          /\ \E raises \in BOOLEAN :
                Run(df, [Widgets EXCEPT !.selected[i] = v], raises)
    /\ UNCHANGED <<file, pc, df>>

\* the user picks curve t
SelectCurve ==
    /\ pc = "running"
    /\ \E t \in Elements(curve_titles) :
          /\ t # selected_title
          /\ \E raises \in BOOLEAN :
                Run(df, [Widgets EXCEPT !.selected_title = t], raises)
    /\ UNCHANGED <<file, pc, df>>

\* an axis whose unit selectbox is drawn
UnitWidget(axis) ==
    /\ axis.category \notin {None, "unknown"}
    /\ axis.unit_selected # None

\* the user picks unit u for the X axis
ChangeXUnit ==
    /\ pc = "running"
    /\ UnitWidget(x_axis)
    /\ \E u \in Elements(x_axis.options) :
          /\ u # x_axis.unit_selected
          /\ \E raises \in BOOLEAN :
                Run(df, [Widgets EXCEPT !.x_axis.unit_selected = u], raises)
    /\ UNCHANGED <<file, pc, df>>

\* the user picks unit u for the Y axis
ChangeYUnit ==
    /\ pc = "running"
    /\ UnitWidget(y_axis)
    /\ \E u \in Elements(y_axis.options) :
          /\ u # y_axis.unit_selected
          /\ \E raises \in BOOLEAN :
                Run(df, [Widgets EXCEPT !.y_axis.unit_selected = u], raises)
    /\ UNCHANGED <<file, pc, df>>

Next ==
    \/ Startup
    \/ ChangeFilter
    \/ SelectCurve
    \/ ChangeXUnit
    \/ ChangeYUnit

Spec == Init /\ [][Next]_vars

\* ------------------------------------------------------------------------
\* 7. The data of the chart (lines 256-278), as the pass computes it
\* ------------------------------------------------------------------------
\* the number of points of the fitted line
ResampleCount == 200

\* linspace that leaves the end point out (endpoint=False)
linspace_NoEndpoint(start, stop, num) ==
    [j \in 1..num |-> Rat(start * num + (j - 1) * (stop - start), num)]

\* np.linspace(start, stop, num): num evenly spaced numbers, the last one
\* set to stop
linspace(start, stop, num) ==
    [j \in 1..num |->
        IF num = 1 THEN <<start, 1>>
        ELSE IF j = num THEN <<stop, 1>>
        ELSE Rat(start * (num - 1) + (j - 1) * (stop - start), num - 1)]

\* A value of the chart: an exact number v, or the value at parameter `at`
\* of a spline between its knots, times `scale`.
Exact(v) == [exact |-> TRUE, v |-> v, at |-> <<0, 1>>, scale |-> One]
Between(t) == [exact |-> FALSE, v |-> <<0, 1>>, at |-> t, scale |-> One]

\* spline(t): an interpolating spline (s=0) takes the sample value at each
\* of its knots t = 0..n-1; between the knots its value is left symbolic
SplineAt(spline, t) ==
    IF t[2] = 1 /\ t[1] + 1 \in 1..Len(spline.c)
    THEN Exact(<<spline.c[t[1] + 1], 1>>)
    ELSE Between(t)

\* value * factor
Times(val, factor) ==
    IF val.exact THEN [val EXCEPT !.v = RatMul(@, factor)]
    ELSE [val EXCEPT !.scale = RatMul(@, factor)]

\* lines 259-265
x_display == [i \in 1..Len(fit.x_data) |-> RatMul(<<fit.x_data[i], 1>>, x_axis.conv_factor)]
y_display == [i \in 1..Len(fit.y_data) |-> RatMul(<<fit.y_data[i], 1>>, y_axis.conv_factor)]
plot_df_scatter ==
    [i \in 1..Len(fit.x_data) |->
        [x |-> x_display[i], y |-> y_display[i], order_col |-> i - 1]]

\* lines 268-278 with num points
Resample(num) ==
    LET t_fit == linspace(0, Len(fit.x_data) - 1, num)
    IN  [j \in 1..num |->
            [ x |-> Times(SplineAt(fit.spline_x, t_fit[j]), x_axis.conv_factor),
              y |-> Times(SplineAt(fit.spline_y, t_fit[j]), y_axis.conv_factor),
              order_col |-> t_fit[j] ]]

plot_df_line == Resample(ResampleCount)

\* ------------------------------------------------------------------------
\* 8. Properties
\* ------------------------------------------------------------------------
\* a CSV row whose X_Value and Y_Value are both numbers
ValidRow(r) == r["X_Value"][1] = "num" /\ r["Y_Value"][1] = "num"

\* the positions (from 0) of the valid rows of the file that carry title t
ValidAt(t) ==
    {i \in 0..(Len(file.rows) - 1) :
        ValidRow(file.rows[i + 1]) /\ Eq(file.rows[i + 1]["title"], t)}

\* the titles fit is tried on: those of the pools and one no file has
SomeTitles == {"A", "B", "Z", NaN}

\* the pass has drawn the sidebar
SidebarDrawn ==
    /\ \A i \in 1..Len(FilterColumns) : Len(options[i]) >= 1 /\ options[i][1] = "All"
    /\ \A i \in 1..Len(FilterColumns) : InList(options[i], selected[i])
    /\ curve_titles # << >>
    /\ InList(curve_titles, selected_title)

\* C1: with 0 or 1 valid rows of a title, get_fitted_spline returns
\* InsufficientData, builds no spline and raises nothing; with 2 or more it
\* never returns InsufficientData.  Stated of the curve the pass fits and of
\* get_fitted_spline on every title of SomeTitles.
C1_InsufficientData ==
    /\ pc = "running" /\ selected_title # None =>
          LET n == Cardinality(ValidAt(selected_title)) IN
          /\ n < 2 => /\ fit.outcome = "InsufficientData"
                      /\ fit.spline_x = NoSpline /\ fit.spline_y = NoSpline
                      /\ fit.k_spline = 0
                      /\ status = "complete" /\ error = None
          /\ n >= 2 => fit.outcome \in {"Fitted", "FitConstructionFailed"}
    /\ pc = "running" =>
          \A t \in SomeTitles : \A raises \in BOOLEAN :
              LET n == Cardinality(ValidAt(t))
                  f == get_fitted_spline(t, df, raises)
              IN  /\ n < 2 => f.outcome = "InsufficientData" /\ f.spline_x = NoSpline
                  /\ n >= 2 => f.outcome # "InsufficientData"

C1_Witness ==
    /\ fit.outcome = "InsufficientData"
    /\ Cardinality(ValidAt(selected_title)) = 1
    /\ status = "complete"

\* C2: whenever a spline is built for n >= 2 samples its degree is
\* min(3, n-1): 1 for n = 2, 2 for n = 3, 3 for n >= 4, the same for X and Y.
C2_SplineDegree ==
    fit.outcome \in {"Fitted", "FitConstructionFailed"} =>
        LET n == Cardinality(ValidAt(selected_title))
            k == fit.k_spline
        IN  /\ n >= 2 /\ fit.n_points = n
            /\ n = 2 => k = 1
            /\ n = 3 => k = 2
            /\ n >= 4 => k = 3
            /\ 1 <= k /\ k <= 3 /\ k <= n - 1
            /\ fit.outcome = "Fitted" => fit.spline_x.k = k /\ fit.spline_y.k = k

C2_Witness ==
    /\ fit.outcome = "Fitted"
    /\ fit.n_points >= 4
    /\ fit.spline_x.k = 3

\* the axes of the pass with the variable name of each
Axes == {<<x_axis, fit.x_var>>, <<y_axis, fit.y_var>>}

\* the variable is bound in the binding table
Bound(var_name) == var_name \in DOMAIN VARIABLE_TO_CATEGORY

\* the unit of factor 1.0 is the one named u
IsFactorOneUnit(category, u) ==
    /\ HasKey(CONVERSION_FACTORS[category], u)
    /\ Get(CONVERSION_FACTORS[category], u) = One

\* the list is the unit names of the category, in table order
IsUnitList(category, list) ==
    /\ Len(list) = Len(CONVERSION_FACTORS[category])
    /\ \A i \in 1..Len(list) : list[i] = CONVERSION_FACTORS[category][i][1]

\* C3 as claimed: for a bound variable get_unit_info returns its category,
\* the unit of factor 1.0 of that category, and the units of the category in
\* table order, the returned unit among them.
C3_Original ==
    status = "complete" /\ chart # None =>
        \A a \in Axes :
            Bound(a[2]) =>
                /\ a[1].category = VARIABLE_TO_CATEGORY[a[2]][1]
                /\ IsFactorOneUnit(a[1].category, a[1].base_unit)
                /\ IsUnitList(a[1].category, a[1].options)
                /\ InList(a[1].options, a[1].base_unit)

\* C3 as amended: for a bound variable get_unit_info returns its category,
\* the native unit the binding table gives the variable (which need not be
\* the unit of factor 1.0), and the units of the category in table order,
\* the returned unit among them.
C3_UnitsOfBoundVariable ==
    /\ fit.outcome = "Fitted" =>
          \A a \in Axes :
              Bound(a[2]) =>
                  /\ a[1].category = VARIABLE_TO_CATEGORY[a[2]][1]
                  /\ a[1].base_unit = VARIABLE_TO_CATEGORY[a[2]][2]
                  /\ IsUnitList(a[1].category, a[1].options)
                  /\ InList(a[1].options, a[1].base_unit)
    /\ fit.outcome = "Fitted" /\ fit.x_var = "Diameter in" =>
          /\ x_axis.category = "length"
          /\ x_axis.base_unit = "inches (in)"
          /\ x_axis.options =
                <<"centimeters (cm)", "meters (m)", "inches (in)", "feet (ft)">>

C3_Witness ==
    /\ fit.outcome = "Fitted"
    /\ fit.x_var = "Diameter in"
    /\ x_axis.base_unit = "inches (in)"
    /\ ~IsFactorOneUnit("length", x_axis.base_unit)
    /\ status = "complete"

\* C4: for a variable name the binding table does not hold, get_unit_info
\* returns "unknown", the name and the list of the name alone; no unit
\* selectbox is drawn for the axis, the table is not looked up for it, its
\* unit is the name and its factor 1; and no error is raised when both
\* variables of the curve have a name.
C4_UnknownVariable ==
    fit.outcome = "Fitted" =>
        /\ \A a \in Axes :
              ~Bound(a[2]) /\ a[2] # NaN =>
                  /\ a[1].category = "unknown"
                  /\ a[1].base_unit = a[2]
                  /\ a[1].options = <<a[2]>>
                  /\ a[1].lookups = {}
                  /\ ~UnitWidget(a[1])
                  /\ a[1].unit_selected \in {a[2], None}
                  /\ a[1].conv_factor \in {One, NoFactor}
                  /\ status = "complete" =>
                        a[1].unit_selected = a[2] /\ a[1].conv_factor = One
        /\ fit.x_var # NaN /\ fit.y_var # NaN =>
              status = "complete" /\ error = None /\ chart = selected_title

C4_Witness ==
    /\ fit.outcome = "Fitted"
    /\ fit.x_var = "Foo bar"
    /\ Bound(fit.y_var)
    /\ x_axis.unit_selected = "Foo bar"
    /\ x_axis.conv_factor = One
    /\ x_axis.lookups = {}
    /\ chart # None

\* the units of a category
UnitsOf(category) == Elements(Keys(CONVERSION_FACTORS[category]))

\* the factor of a unit
FactorOf(category, u) == Get(CONVERSION_FACTORS[category], u)

\* C5: the factor of an axis of a known category is
\* table[native unit] / table[selected unit], that is factor * table[to] =
\* table[from]; it is 1 when the two units are the same; inches to
\* centimeters is 2.54 and turns the values 1, 2 into 2.54, 5.08.  The
\* last conjunct states the same of the factor of every pair of units of
\* every category; it does not depend on the pass and is evaluated in the
\* initial states.
C5_ConversionFactor ==
    /\ chart # None =>
          \A a \in Axes :
              Bound(a[2]) =>
                  /\ RatMul(a[1].conv_factor, FactorOf(a[1].category, a[1].unit_selected))
                        = FactorOf(a[1].category, VARIABLE_TO_CATEGORY[a[2]][2])
                  /\ a[1].unit_selected = VARIABLE_TO_CATEGORY[a[2]][2] =>
                        a[1].conv_factor = One
    /\ chart # None /\ fit.x_var = "Diameter in"
          /\ x_axis.unit_selected = "centimeters (cm)" =>
          /\ x_axis.conv_factor = <<127, 50>>
          /\ fit.x_data = <<1, 2>> => x_display = << <<127, 50>>, <<127, 25>> >>
    /\ pc = "start" =>
          \A category \in DOMAIN CONVERSION_FACTORS :
          \A from \in UnitsOf(category) : \A to \in UnitsOf(category) :
              LET f == AxisFactor([NoAxis EXCEPT !.category = category,
                                                 !.base_unit = from,
                                                 !.unit_selected = to])
              IN  /\ RatMul(f, FactorOf(category, to)) = FactorOf(category, from)
                  /\ from = to => f = One

C5_Witness ==
    /\ chart # None
    /\ fit.x_var = "Diameter in"
    /\ x_axis.unit_selected = "centimeters (cm)"
    /\ x_axis.conv_factor = <<127, 50>>
    /\ fit.x_data = <<1, 2>>
    /\ x_display = << <<127, 50>>, <<127, 25>> >>

\* the positions (from 0) of the valid rows of the file
ValidPositions == {i \in 0..(Len(file.rows) - 1) : ValidRow(file.rows[i + 1])}

\* C6: after load_data the DataFrame holds exactly the rows of the file
\* whose X_Value and Y_Value are both numbers, in file order and with their
\* values unchanged; no curve title is listed that has no such row, and
\* with no filter set every title that has one is listed.
C6_LoadDropsInvalidRows ==
    pc = "running" =>
        /\ {df[i]["index"] : i \in 1..Len(df)} = ValidPositions
        /\ Len(df) = Cardinality(ValidPositions)
        /\ \A i \in 1..Len(df) :
              /\ \A c \in Columns : df[i][c] = file.rows[df[i]["index"] + 1][c]
              /\ i > 1 => df[i - 1]["index"] < df[i]["index"]
        /\ \A t \in Elements(curve_titles) :
              \E i \in ValidPositions : file.rows[i + 1]["title"] = t
        /\ (\A j \in 1..Len(FilterColumns) : selected[j] = "All") =>
              \A i \in ValidPositions : InList(curve_titles, file.rows[i + 1]["title"])

C6_Witness ==
    /\ pc = "running"
    /\ df # << >>
    /\ \E i \in 1..Len(file.rows) :
          /\ ~ValidRow(file.rows[i])
          /\ file.rows[i]["X_Value"] = TextCell
          /\ ~InList(curve_titles, file.rows[i]["title"])
          /\ \A j \in 1..Len(FilterColumns) : selected[j] = "All"

\* C7: the samples of a fit are the valid rows of the file with the title,
\* all of them and in file order whatever the filters select; the i-th of
\* them has parameter t = i (from 0).
C7_IngestionOrder ==
    fit.outcome = "Fitted" =>
        LET n == fit.n_points IN
        /\ Elements(fit.index) = ValidAt(selected_title)
        /\ Len(fit.index) = n /\ Len(fit.x_data) = n /\ Len(fit.y_data) = n
        /\ \A i \in 1..n :
              /\ i > 1 => fit.index[i - 1] < fit.index[i]
              /\ fit.x_data[i] = file.rows[fit.index[i] + 1]["X_Value"][2]
              /\ fit.y_data[i] = file.rows[fit.index[i] + 1]["Y_Value"][2]
              /\ fit.spline_x.t[i] = i - 1 /\ fit.spline_y.t[i] = i - 1
              /\ fit.spline_x.c[i] = fit.x_data[i] /\ fit.spline_y.c[i] = fit.y_data[i]
        /\ chart # None =>
              \A i \in 1..n : plot_df_scatter[i].order_col = i - 1

C7_Witness ==
    /\ fit.outcome = "Fitted"
    /\ chart # None
    /\ selected[1] = "slab"
    /\ fit.x_data = <<2, 1>>
    /\ \E i \in ValidAt(selected_title) : file.rows[i + 1]["geometry"] # "slab"

\* the points are `num` points at evenly spaced, increasing parameters from
\* 0 to n-1 whose first and last are the first and last sample as drawn
EndpointsPreserved(line, num) ==
    LET n == fit.n_points IN
    /\ Len(line) = num
    /\ line[1].order_col = <<0, 1>>
    /\ line[num].order_col = <<n - 1, 1>>
    /\ \A j \in 1..num :
          /\ line[j].order_col[1] * (num - 1) = (j - 1) * (n - 1) * line[j].order_col[2]
          /\ j > 1 => line[j - 1].order_col[1] * line[j].order_col[2]
                        < line[j].order_col[1] * line[j - 1].order_col[2]
    /\ line[1].x = Exact(plot_df_scatter[1].x)
    /\ line[1].y = Exact(plot_df_scatter[1].y)
    /\ line[num].x = Exact(plot_df_scatter[n].x)
    /\ line[num].y = Exact(plot_df_scatter[n].y)

\* the other counts a curve is resampled to
Counts == 2..MaxCount

\* C8: the fitted line of a drawn curve (n >= 2) has exactly `count`
\* points, at increasing, evenly spaced parameters from 0 to n-1, and its
\* first and last point are the first and the last sample; for the 200
\* points the script draws and for every other count of Counts.
C8_Resample ==
    chart # None =>
        /\ fit.n_points >= 2
        /\ EndpointsPreserved(plot_df_line, ResampleCount)
        /\ \A count \in Counts : EndpointsPreserved(Resample(count), count)

C8_Witness ==
    /\ chart # None
    /\ fit.n_points = 2
    /\ x_axis.conv_factor # One
    /\ Len(plot_df_line) = ResampleCount
    /\ plot_df_line[ResampleCount].order_col = <<1, 1>>
    /\ plot_df_line[1].x = Exact(x_display[1])
    /\ ~plot_df_line[2].x.exact

\* C9: a pass whose fit fails still ends normally with the filters and the
\* curve list drawn, and after such a pass a pass on a curve with two or
\* more valid rows fits the curve (unless the spline constructor itself
\* fails) and, when both variables of the curve have a name, draws it; and
\* every pass over a loaded dataset, however it ends, leaves the session
\* running with the filters and the curve list drawn.
C9_FailureIsLocal ==
    /\ pc = "running" /\ df # << >> =>
          status \in {"complete", "exception"} /\ SidebarDrawn
    /\ fit.outcome \in FailedOutcomes =>
          /\ pc = "running" /\ status = "complete" /\ error = None
          /\ SidebarDrawn
          /\ chart = None
          /\ notices = {fit.outcome}
    /\ failed_before /\ selected_title # None
          /\ Cardinality(ValidAt(selected_title)) >= 2
          /\ fit.outcome # "FitConstructionFailed" =>
          /\ pc = "running" /\ SidebarDrawn
          /\ fit.outcome = "Fitted"
          /\ fit.x_var # NaN /\ fit.y_var # NaN =>
                status = "complete" /\ chart = selected_title

C9_Witness ==
    /\ failed_before
    /\ "B" \in Elements(curve_titles)
    /\ Cardinality(ValidAt("B")) = 1
    /\ selected_title = "A"
    /\ fit.outcome = "Fitted"
    /\ chart = "A"

\* C10: every binding names a category of the table and a unit of that
\* category, and every factor is positive; whenever a factor is computed
\* for an axis of a known category both lookups find their key, the unit
\* selectbox finds its default, and no pass ends in a KeyError, a
\* ValueError or a ZeroDivisionError.
C10_LookupsSucceed ==
    /\ \A v \in DOMAIN VARIABLE_TO_CATEGORY :
          /\ VARIABLE_TO_CATEGORY[v][1] \in DOMAIN CONVERSION_FACTORS
          /\ HasKey(CONVERSION_FACTORS[VARIABLE_TO_CATEGORY[v][1]],
                    VARIABLE_TO_CATEGORY[v][2])
    /\ \A category \in DOMAIN CONVERSION_FACTORS :
          \A i \in 1..Len(CONVERSION_FACTORS[category]) :
              /\ CONVERSION_FACTORS[category][i][2][1] > 0
              /\ CONVERSION_FACTORS[category][i][2][2] > 0
    /\ error \notin {"KeyError", "ValueError", "ZeroDivisionError"}
    /\ \A a \in Axes :
          /\ a[1].conv_factor # NoFactor /\ a[1].category # "unknown" =>
                /\ a[1].category \in DOMAIN CONVERSION_FACTORS
                /\ a[1].lookups = {<<a[1].category, a[1].base_unit>>,
                                   <<a[1].category, a[1].unit_selected>>}
                /\ a[1].base_unit = VARIABLE_TO_CATEGORY[a[2]][2]
                /\ a[1].conv_factor[1] > 0 /\ a[1].conv_factor[2] > 0
          /\ \A l \in a[1].lookups :
                /\ l[1] \in DOMAIN CONVERSION_FACTORS
                /\ HasKey(CONVERSION_FACTORS[l[1]], l[2])
                /\ Get(CONVERSION_FACTORS[l[1]], l[2])[1] > 0
          /\ Bound(a[2]) /\ fit.outcome = "Fitted" =>
                InList(a[1].options, a[1].base_unit)
          /\ UnitWidget(a[1]) => InList(a[1].options, a[1].unit_selected)

C10_Witness ==
    /\ chart # None
    /\ fit.x_var = "critmass kg"
    /\ x_axis.unit_selected = "pounds (lb)"
    /\ x_axis.lookups = {<<"mass", "kilograms (kg)">>, <<"mass", "pounds (lb)">>}
    /\ Bound(fit.y_var)
    /\ y_axis.unit_selected # y_axis.base_unit

====
